---- MODULE Spec2Model ----
(***************************************************************************)
(* Model of enviroSendData.py: the sensor readers, the two HTTP senders    *)
(* and the main polling loop with its two send timers.                      *)
(*                                                                          *)
(* Time is the integer number of seconds on the clock that time.time()     *)
(* reads; the clock counts from local midnight of a fixed day, advances    *)
(* while the loop is blocked in I/O (action Tick) and is capped by MaxTime.*)
(* Python's None is the string "None"; a dict is a function from its keys. *)
(***************************************************************************)
EXTENDS Integers, Sequences, FiniteSets, TLC

\* ------------------------------------------------------------------ bounds
MaxTime == 2400
ClockSteps == {300}

\* largest quotient looked for when a gas value is compared with its string
GasQuotientMax == 500

\* ------------------------------------------------------- program constants
PmInterval == 300
EnviroInterval == 900
\* comp_factor = 2.25, kept as the ratio 9/4
comp_factor_num == 9
comp_factor_den == 4
GasScale == 1000

VARIABLES
    now,                 \* the clock read by time.time() / datetime.now()
    API_URL,             \* os.getenv("API_URL"): a base url or "None"
    update_time,         \* last air-quality send timestamp
    update_time2,        \* last enviro send timestamp
    time_since_update,
    time_since_update2,
    enviro_values,
    pm_values,
    pc,                  \* position of the main loop
    exc,                 \* exception raised in the current iteration
    log,                 \* log records emitted in the current iteration
    pmOps,               \* calls made on pms5003 by the last read_pm_values
    lastSend,            \* outcome of the last sender call
    iterCalls,           \* sender calls started in the current iteration
    pmSendCount,         \* send_pm_data calls since start
    enviroSendCount,     \* send_enviro_data calls since start
    enviroRaw,           \* raw sample behind the iteration's enviro reading
    iterReads,           \* readings returned in the current iteration
    lastAttempt,         \* per sender, its last finished call
    pending              \* per sender, why a due send was skipped

vars == <<now, API_URL, update_time, update_time2, time_since_update,
          time_since_update2, enviro_values, pm_values, pc, exc, log,
          pmOps, lastSend, iterCalls, pmSendCount, enviroSendCount,
          enviroRaw, iterReads, lastAttempt, pending>>

\* ------------------------------------------------------------ python bits
EmptyDict == [k \in {} |-> ""]

SetItem(d, k, v) ==
    [y \in (DOMAIN d) \cup {k} |-> IF y = k THEN v ELSE d[y]]

\* str() of a non-negative or negative int
str(n) == ToString(n)

\* (mutation) the quotient is rounded to the nearest integer
IntDiv_Rounded(n, d) ==
    IF n >= 0 THEN (2 * n + d) \div (2 * d) ELSE -((2 * (-n) + d) \div (2 * d))

\* int() of the quotient n / d (d > 0): truncation toward zero
IntDiv(n, d) == IF n >= 0 THEN n \div d ELSE -((-n) \div d)

TwoDigits(n) == IF n < 10 THEN "0" \o ToString(n) ELSE ToString(n)

\* "{:05.2f}".format(x) for x given in hundredths
Format052(h) ==
    LET a  == IF h < 0 THEN -h ELSE h
        ip == a \div 100
        fp == a % 100
        body == ToString(ip) \o "." \o TwoDigits(fp)
    IN IF h < 0 THEN "-" \o body
       ELSE IF ip < 10 THEN "0" \o body ELSE body

\* paris_time.strftime("%d-%m-%Y %H:%M") of the clock value t
strftime(t) ==
    "01-01-2024 " \o TwoDigits((t \div 3600) % 24) \o ":"
                  \o TwoDigits((t % 3600) \div 60)

LogRec(level, msg, arg) == [level |-> level, msg |-> msg, arg |-> arg]

\* ---------------------------------------------------------- sensor inputs
EnviroFields == {"date", "temperature", "pressure", "humidity",
                 "oxidising", "reducing", "nh3"}
PmFields == {"date", "pm1", "pm25", "pm10"}

\* raw readings: cpu in millidegrees, temperature / pressure / humidity in
\* hundredths, gas resistances in ohms
EnviroSamples ==
    { [cpu |-> 47900, raw_temp |-> 2540, pressure |-> 101325,
       humidity |-> 4507, oxidising |-> 1999, reducing |-> 999,
       nh3 |-> 254000],
      [cpu |-> 38000, raw_temp |-> 650, pressure |-> 98800,
       humidity |-> 812, oxidising |-> 20000, reducing |-> 450500,
       nh3 |-> 0] }
NoEnviro == [cpu |-> 0, raw_temp |-> 0, pressure |-> 0, humidity |-> 0,
             oxidising |-> 0, reducing |-> 0, nh3 |-> 0]
EnviroOutcomes ==
    [exc : {"None"}, data : EnviroSamples]
    \cup [exc : {"OSError"}, data : {NoEnviro}]

PmSamples == { [pm1 |-> 3, pm25 |-> 5, pm10 |-> 12],
               [pm1 |-> 0, pm25 |-> 1, pm10 |-> 1] }
NoPm == [pm1 |-> 0, pm25 |-> 0, pm10 |-> 0]
TransientPmErrors == {"ReadTimeoutError", "ChecksumMismatchError"}
PmOutcomes ==
    [exc : {"None"}, data : PmSamples]
    \cup [exc : TransientPmErrors \cup {"SerialTimeoutError"}, data : {NoPm}]

\* ----------------------------------------------------------- read_enviro
get_cpu_temperature(millis) == millis \div 10

read_enviro_values(t, r) ==
    IF r.exc # "None"
    THEN [raised |-> r.exc, values |-> EmptyDict]
    ELSE
    LET cpu_temp == get_cpu_temperature(r.data.cpu)
        raw_temp == r.data.raw_temp
        \* raw - (cpu - raw) / 2.25, rounded to the nearest hundredth
        num      == raw_temp * comp_factor_num
                    - (cpu_temp - raw_temp) * comp_factor_den
        comp_temp == (2 * num + comp_factor_num) \div (2 * comp_factor_num)
        v1 == SetItem(EmptyDict, "date", strftime(t))
        v2 == SetItem(v1, "temperature", Format052(comp_temp))
        v3 == SetItem(v2, "pressure", Format052(r.data.pressure))
        v4 == SetItem(v3, "humidity", Format052(r.data.humidity))
        v5 == SetItem(v4, "oxidising", str(IntDiv(r.data.oxidising, GasScale)))
        v6 == SetItem(v5, "reducing", str(IntDiv(r.data.reducing, GasScale)))
        v7 == SetItem(v6, "nh3", str(IntDiv(r.data.nh3, GasScale)))
    IN [raised |-> "None", values |-> v7]

\* --------------------------------------------------------------- read_pm
PmRead(res) == [op |-> "read", res |-> res]
PmReset == [op |-> "reset", res |-> [exc |-> "None", data |-> NoPm]]

\* (mutation) the pm10 assignment is lost
PmFill_NoPm10(values, data) ==
    LET v1 == SetItem(values, "pm1", str(data.pm1))
    IN SetItem(v1, "pm25", str(data.pm25))

PmFill(values, data) ==
    LET v1 == SetItem(values, "pm1", str(data.pm1))
        v2 == SetItem(v1, "pm25", str(data.pm25))
    IN SetItem(v2, "pm10", str(data.pm10))

\* (mutation) the retry reads again without resetting the sensor
read_pm_values_NoReset(t, r1, r2) ==
    LET values == SetItem(EmptyDict, "date", strftime(t))
    IN IF r1.exc = "None"
       THEN [raised |-> "None", values |-> PmFill(values, r1.data),
             ops |-> <<PmRead(r1)>>, log |-> <<>>]
       ELSE IF r1.exc \in TransientPmErrors
       THEN LET l == <<LogRec("INFO", "Failed to read PMS5003. Reseting and retrying.", "")>>
                o == <<PmRead(r1), PmRead(r2)>>
            IN IF r2.exc = "None"
               THEN [raised |-> "None", values |-> PmFill(values, r2.data),
                     ops |-> o, log |-> l]
               ELSE [raised |-> r2.exc, values |-> values,
                     ops |-> o, log |-> l]
       ELSE [raised |-> r1.exc, values |-> values,
             ops |-> <<PmRead(r1)>>, log |-> <<>>]

\* (mutation) a failed retry re-raises the error of the first read
read_pm_values_FirstError(t, r1, r2) ==
    LET values == SetItem(EmptyDict, "date", strftime(t))
    IN IF r1.exc = "None"
       THEN [raised |-> "None", values |-> PmFill(values, r1.data),
             ops |-> <<PmRead(r1)>>, log |-> <<>>]
       ELSE IF r1.exc \in TransientPmErrors
       THEN LET l == <<LogRec("INFO", "Failed to read PMS5003. Reseting and retrying.", "")>>
                o == <<PmRead(r1), PmReset, PmRead(r2)>>
            IN IF r2.exc = "None"
               THEN [raised |-> "None", values |-> PmFill(values, r2.data),
                     ops |-> o, log |-> l]
               ELSE [raised |-> r1.exc, values |-> values,
                     ops |-> o, log |-> l]
       ELSE [raised |-> r1.exc, values |-> values,
             ops |-> <<PmRead(r1)>>, log |-> <<>>]

\* r1, r2: what pms5003.read() does on its first and second call
read_pm_values(t, r1, r2) ==
    LET values == SetItem(EmptyDict, "date", strftime(t))
    IN IF r1.exc = "None"
       THEN [raised |-> "None", values |-> PmFill(values, r1.data),
             ops |-> <<PmRead(r1)>>, log |-> <<>>]
       ELSE IF r1.exc \in TransientPmErrors
       THEN LET l == <<LogRec("INFO", "Failed to read PMS5003. Reseting and retrying.", "")>>
                o == <<PmRead(r1), PmReset, PmRead(r2)>>
            IN IF r2.exc = "None"
               THEN [raised |-> "None", values |-> PmFill(values, r2.data),
                     ops |-> o, log |-> l]
               ELSE [raised |-> r2.exc, values |-> values,
                     ops |-> o, log |-> l]
       ELSE [raised |-> r1.exc, values |-> values,
             ops |-> <<PmRead(r1)>>, log |-> <<>>]

\* ------------------------------------------------------------ exceptions
\* the classes an exception of the model is an instance of
MRO(e) ==
    CASE e = "ConnectionError"  -> {"ConnectionError", "RequestException", "OSError", "Exception"}
      [] e = "Timeout"          -> {"Timeout", "RequestException", "OSError", "Exception"}
      [] e = "TooManyRedirects" -> {"TooManyRedirects", "RequestException", "OSError", "Exception"}
      [] e = "TypeError"        -> {"TypeError", "Exception"}
      [] e = "KeyError"         -> {"KeyError", "LookupError", "Exception"}
      [] e = "OSError"          -> {"OSError", "Exception"}
      [] e = "ReadTimeoutError" -> {"ReadTimeoutError", "RuntimeError", "Exception"}
      [] e = "ChecksumMismatchError" -> {"ChecksumMismatchError", "RuntimeError", "Exception"}
      [] e = "SerialTimeoutError" -> {"SerialTimeoutError", "RuntimeError", "Exception"}
      [] OTHER -> {}

IsInstance(e, cls) == cls \in MRO(e)

\* ---------------------------------------------------------------- senders
\* what requests.post does once it is called
PostOutcomes ==
    { [exc |-> "None", ok |-> TRUE,  reason |-> "OK"],
      [exc |-> "None", ok |-> FALSE, reason |-> "Not Found"],
      [exc |-> "ConnectionError",  ok |-> FALSE, reason |-> ""],
      [exc |-> "Timeout",          ok |-> FALSE, reason |-> ""],
      [exc |-> "TooManyRedirects", ok |-> FALSE, reason |-> ""] }
NoPost == [exc |-> "NotCalled", ok |-> FALSE, reason |-> ""]

SendResult(raised, ret, l, posted, url, body) ==
    [raised |-> raised, ret |-> ret, log |-> l, posted |-> posted,
     url |-> url, body |-> body]

\* (mutation) any response counts as success
send_enviro_data_AnyResponse(url, values, post) ==
    LET argsExc == IF url = "None" THEN "TypeError"
                   ELSE IF ~(EnviroFields \subseteq DOMAIN values) THEN "KeyError"
                   ELSE "None"
        posted  == argsExc = "None"
        target  == IF posted THEN url \o "/enviro-data" ELSE ""
        body    == IF posted THEN [f \in EnviroFields |-> values[f]] ELSE EmptyDict
        raised  == IF posted THEN post.exc ELSE argsExc
    IN IF raised = "None"
       THEN \* resp_enviro is not None
            IF TRUE
            THEN SendResult("None", "True", <<>>, posted, target, body)
            ELSE SendResult("None", "False",
                     <<LogRec("WARNING", "API Enviro Error. Enviro", post.reason)>>,
                     posted, target, body)
       ELSE IF IsInstance(raised, "ConnectionError")
       THEN SendResult("None", "False",
                <<LogRec("WARNING", "API Enviro Connection Error", raised)>>,
                posted, target, body)
       ELSE IF IsInstance(raised, "Timeout")
       THEN SendResult("None", "False",
                <<LogRec("WARNING", "API Enviro Timeout Error", raised)>>,
                posted, target, body)
       ELSE IF IsInstance(raised, "RequestException")
       THEN SendResult("None", "False",
                <<LogRec("WARNING", "API Enviro Request Error", raised)>>,
                posted, target, body)
       ELSE SendResult(raised, "NoReturn", <<>>, posted, target, body)

send_enviro_data(url, values, post) ==
    LET argsExc == IF url = "None" THEN "TypeError"
                   ELSE IF ~(EnviroFields \subseteq DOMAIN values) THEN "KeyError"
                   ELSE "None"
        posted  == argsExc = "None"
        target  == IF posted THEN url \o "/enviro-data" ELSE ""
        body    == IF posted THEN [f \in EnviroFields |-> values[f]] ELSE EmptyDict
        raised  == IF posted THEN post.exc ELSE argsExc
    IN IF raised = "None"
       THEN \* resp_enviro is not None
            IF post.ok
            THEN SendResult("None", "True", <<>>, posted, target, body)
            ELSE SendResult("None", "False",
                     <<LogRec("WARNING", "API Enviro Error. Enviro", post.reason)>>,
                     posted, target, body)
       ELSE IF IsInstance(raised, "ConnectionError")
       THEN SendResult("None", "False",
                <<LogRec("WARNING", "API Enviro Connection Error", raised)>>,
                posted, target, body)
       ELSE IF IsInstance(raised, "Timeout")
       THEN SendResult("None", "False",
                <<LogRec("WARNING", "API Enviro Timeout Error", raised)>>,
                posted, target, body)
       ELSE IF IsInstance(raised, "RequestException")
       THEN SendResult("None", "False",
                <<LogRec("WARNING", "API Enviro Request Error", raised)>>,
                posted, target, body)
       ELSE SendResult(raised, "NoReturn", <<>>, posted, target, body)

\* (mutation) a non-ok response is not logged
send_pm_data_SilentFail(url, values, post) ==
    LET argsExc == IF url = "None" THEN "TypeError"
                   ELSE IF ~(PmFields \subseteq DOMAIN values) THEN "KeyError"
                   ELSE "None"
        posted  == argsExc = "None"
        target  == IF posted THEN url \o "/air-quality" ELSE ""
        body    == IF posted THEN [f \in PmFields |-> values[f]] ELSE EmptyDict
        raised  == IF posted THEN post.exc ELSE argsExc
    IN IF raised = "None"
       THEN \* resp_pm is not None
            IF post.ok
            THEN SendResult("None", "True", <<>>, posted, target, body)
            ELSE SendResult("None", "False", <<>>, posted, target, body)
       ELSE IF IsInstance(raised, "ConnectionError")
       THEN SendResult("None", "False",
                <<LogRec("WARNING", "API PM Connection Error", raised)>>,
                posted, target, body)
       ELSE IF IsInstance(raised, "Timeout")
       THEN SendResult("None", "False",
                <<LogRec("WARNING", "API PM Timeout Error", raised)>>,
                posted, target, body)
       ELSE IF IsInstance(raised, "RequestException")
       THEN SendResult("None", "False",
                <<LogRec("WARNING", "API PM Request Error", raised)>>,
                posted, target, body)
       ELSE SendResult(raised, "NoReturn", <<>>, posted, target, body)

send_pm_data(url, values, post) ==
    LET argsExc == IF url = "None" THEN "TypeError"
                   ELSE IF ~(PmFields \subseteq DOMAIN values) THEN "KeyError"
                   ELSE "None"
        posted  == argsExc = "None"
        target  == IF posted THEN url \o "/air-quality" ELSE ""
        body    == IF posted THEN [f \in PmFields |-> values[f]] ELSE EmptyDict
        raised  == IF posted THEN post.exc ELSE argsExc
    IN IF raised = "None"
       THEN \* resp_pm is not None
            IF post.ok
            THEN SendResult("None", "True", <<>>, posted, target, body)
            ELSE SendResult("None", "False",
                     <<LogRec("WARNING", "Error. PM", post.reason)>>,
                     posted, target, body)
       ELSE IF IsInstance(raised, "ConnectionError")
       THEN SendResult("None", "False",
                <<LogRec("WARNING", "API PM Connection Error", raised)>>,
                posted, target, body)
       ELSE IF IsInstance(raised, "Timeout")
       THEN SendResult("None", "False",
                <<LogRec("WARNING", "API PM Timeout Error", raised)>>,
                posted, target, body)
       ELSE IF IsInstance(raised, "RequestException")
       THEN SendResult("None", "False",
                <<LogRec("WARNING", "API PM Request Error", raised)>>,
                posted, target, body)
       ELSE SendResult(raised, "NoReturn", <<>>, posted, target, body)

\* the record kept of a sender call: the sender, what the POST did, how the
\* call ended and what the sender itself logged
SendRec(fn, post, res) ==
    [fn |-> fn, post |-> IF res.posted THEN post ELSE NoPost,
     raised |-> res.raised, ret |-> res.ret, log |-> res.log,
     url |-> res.url, body |-> res.body]
NoSend ==
    [fn |-> "none", post |-> NoPost, raised |-> "None", ret |-> "NoReturn",
     log |-> <<>>, url |-> "", body |-> EmptyDict]

CallRec(fn, arg, t) == [fn |-> fn, arg |-> arg, t |-> t]

Senders == {"send_pm_data", "send_enviro_data"}

\* a reading handed back by a reader
ReadRec(fn, values) == [fn |-> fn, values |-> values]

\* a finished sender call: how it ended, when it was started and the date
\* of the reading it was given
AttemptRec(ret, t, date) == [ret |-> ret, t |-> t, date |-> date]
NoAttempt == AttemptRec("none", 0, "")

\* -------------------------------------------------------------- main loop
\* (mutation) the loop handler catches RuntimeError only
LoopCatches_RuntimeOnly(e) == IsInstance(e, "RuntimeError")

\* except Exception
LoopCatches(e) == IsInstance(e, "Exception")

Init ==
    /\ now = 0
    /\ API_URL \in {"http://api.example", "None"}
    /\ update_time = 0
    /\ update_time2 = 0
    /\ time_since_update = 0
    /\ time_since_update2 = 0
    /\ enviro_values = EmptyDict
    /\ pm_values = EmptyDict
    /\ pc = "read_enviro"
    /\ exc = "None"
    /\ log = <<>>
    /\ pmOps = <<>>
    /\ lastSend = NoSend
    /\ iterCalls = <<>>
    /\ pmSendCount = 0
    /\ enviroSendCount = 0
    /\ enviroRaw = NoEnviro
    /\ iterReads = <<>>
    /\ lastAttempt = [fn \in Senders |-> NoAttempt]
    /\ pending = [fn \in Senders |-> {}]

\* time passes while the loop is blocked in a POST or in the sensor I/O of
\* an iteration, whose latency is accounted for before the reads stamp the
\* clock; the statements in between take no time at the clock's resolution
BlockingPcs == {"read_enviro", "send_pm", "send_enviro"}

Tick ==
    /\ pc \in BlockingPcs
    \* without a base url the sender raises before it posts anything
    /\ pc \in {"send_pm", "send_enviro"} => API_URL # "None"
    /\ \E d \in ClockSteps :
          /\ now + d <= MaxTime
          /\ now' = now + d
    /\ UNCHANGED <<API_URL, update_time, update_time2, time_since_update,
                   time_since_update2, enviro_values, pm_values, pc, exc,
                   log, pmOps, lastSend, iterCalls, pmSendCount,
                   enviroSendCount,
                   enviroRaw, iterReads, lastAttempt, pending>>

\* (mutation) the enviro reading of the first iteration is kept for good
ReadEnviro_Cached ==
    /\ pc = "read_enviro"
    /\ \E r \in EnviroOutcomes :
          LET res == read_enviro_values(now, r)
          IN /\ exc' = res.raised
             /\ IF res.raised = "None"
                THEN /\ enviro_values' = IF enviro_values = EmptyDict
                                         THEN res.values ELSE enviro_values
                     /\ enviroRaw' = r.data
                     /\ iterReads' = <<ReadRec("read_enviro_values", res.values)>>
                     /\ pc' = "read_pm"
                ELSE /\ enviro_values' = enviro_values
                     /\ enviroRaw' = NoEnviro
                     /\ iterReads' = <<>>
                     /\ pc' = "except"
    /\ log' = <<>>
    /\ pmOps' = <<>>
    /\ lastSend' = NoSend
    /\ iterCalls' = <<>>
    /\ UNCHANGED <<now, API_URL, update_time, update_time2,
                   time_since_update, time_since_update2, pm_values,
                   pmSendCount, enviroSendCount,
                   lastAttempt, pending>>

\* line 177; a new iteration starts, with an empty record of what it did
ReadEnviro ==
    /\ pc = "read_enviro"
    /\ \E r \in EnviroOutcomes :
          LET res == read_enviro_values(now, r)
          IN /\ exc' = res.raised
             /\ IF res.raised = "None"
                THEN /\ enviro_values' = res.values
                     /\ enviroRaw' = r.data
                     /\ iterReads' = <<ReadRec("read_enviro_values", res.values)>>
                     /\ pc' = "read_pm"
                ELSE /\ enviro_values' = enviro_values
                     /\ enviroRaw' = NoEnviro
                     /\ iterReads' = <<>>
                     /\ pc' = "except"
    /\ log' = <<>>
    /\ pmOps' = <<>>
    /\ lastSend' = NoSend
    /\ iterCalls' = <<>>
    /\ UNCHANGED <<now, API_URL, update_time, update_time2,
                   time_since_update, time_since_update2, pm_values,
                   pmSendCount, enviroSendCount,
                   lastAttempt, pending>>

\* line 178
ReadPm ==
    /\ pc = "read_pm"
    /\ \E r1 \in PmOutcomes, r2 \in PmOutcomes :
          LET res == read_pm_values(now, r1, r2)
          IN /\ exc' = res.raised
             /\ pmOps' = res.ops
             /\ log' = log \o res.log
             /\ IF res.raised = "None"
                THEN /\ pm_values' = res.values
                     /\ iterReads' = Append(iterReads, ReadRec("read_pm_values", res.values))
                     /\ pc' = "elapsed"
                ELSE /\ pm_values' = pm_values
                     /\ iterReads' = iterReads
                     /\ pc' = "except"
    /\ UNCHANGED <<now, API_URL, update_time, update_time2,
                   time_since_update, time_since_update2, enviro_values,
                   lastSend, iterCalls, pmSendCount, enviroSendCount,
                   enviroRaw, lastAttempt, pending>>

\* line 179
Elapsed ==
    /\ pc = "elapsed"
    /\ time_since_update' = now - update_time
    /\ pc' = "elapsed2"
    /\ UNCHANGED <<now, API_URL, update_time, update_time2,
                   time_since_update2, enviro_values, pm_values, exc, log,
                   pmOps, lastSend, iterCalls, pmSendCount, enviroSendCount,
                   enviroRaw, iterReads, lastAttempt, pending>>

\* (mutation) the enviro elapsed time is taken from the air-quality timer
Elapsed2_PmTimer ==
    /\ pc = "elapsed2"
    /\ time_since_update2' = now - update_time
    /\ pc' = "check_pm"
    /\ UNCHANGED <<now, API_URL, update_time, update_time2,
                   time_since_update, enviro_values, pm_values, exc, log,
                   pmOps, lastSend, iterCalls, pmSendCount, enviroSendCount,
                   enviroRaw, iterReads, lastAttempt, pending>>

\* line 180
Elapsed2 ==
    /\ pc = "elapsed2"
    /\ time_since_update2' = now - update_time2
    /\ pc' = "check_pm"
    /\ UNCHANGED <<now, API_URL, update_time, update_time2,
                   time_since_update, enviro_values, pm_values, exc, log,
                   pmOps, lastSend, iterCalls, pmSendCount, enviroSendCount,
                   enviroRaw, iterReads, lastAttempt, pending>>

\* (mutation) the air-quality timer is not reset before the send
CheckPm_NoReset ==
    /\ pc = "check_pm"
    /\ IF time_since_update > PmInterval
       THEN /\ log' = Append(log, LogRec("INFO", "pm_values", pm_values["date"]))
            /\ update_time' = update_time
            /\ iterCalls' = Append(iterCalls, CallRec("send_pm_data", pm_values, now))
            /\ pmSendCount' = pmSendCount + 1
            /\ pending' = [pending EXCEPT !["send_pm_data"] = {}]
            /\ pc' = "send_pm"
       ELSE /\ pc' = "check_enviro"
            /\ UNCHANGED <<log, update_time, iterCalls, pmSendCount, pending>>
    /\ UNCHANGED <<now, API_URL, update_time2, time_since_update,
                   time_since_update2, enviro_values, pm_values, exc,
                   pmOps, lastSend, enviroSendCount,
                   enviroRaw, iterReads, lastAttempt>>

\* (mutation) the air-quality send is due at exactly the interval
CheckPm_Geq ==
    /\ pc = "check_pm"
    /\ IF time_since_update >= PmInterval
       THEN /\ log' = Append(log, LogRec("INFO", "pm_values", pm_values["date"]))
            /\ update_time' = now
            /\ iterCalls' = Append(iterCalls, CallRec("send_pm_data", pm_values, now))
            /\ pmSendCount' = pmSendCount + 1
            /\ pending' = [pending EXCEPT !["send_pm_data"] = {}]
            /\ pc' = "send_pm"
       ELSE /\ pc' = "check_enviro"
            /\ UNCHANGED <<log, update_time, iterCalls, pmSendCount, pending>>
    /\ UNCHANGED <<now, API_URL, update_time2, time_since_update,
                   time_since_update2, enviro_values, pm_values, exc,
                   pmOps, lastSend, enviroSendCount,
                   enviroRaw, iterReads, lastAttempt>>

\* (mutation) the air-quality step resets both timers
CheckPm_BothTimers ==
    /\ pc = "check_pm"
    /\ IF time_since_update > PmInterval
       THEN /\ log' = Append(log, LogRec("INFO", "pm_values", pm_values["date"]))
            /\ update_time' = now
            /\ update_time2' = now
            /\ iterCalls' = Append(iterCalls, CallRec("send_pm_data", pm_values, now))
            /\ pmSendCount' = pmSendCount + 1
            /\ pending' = [pending EXCEPT !["send_pm_data"] = {}]
            /\ pc' = "send_pm"
       ELSE /\ pc' = "check_enviro"
            /\ update_time2' = update_time2
            /\ UNCHANGED <<log, update_time, iterCalls, pmSendCount, pending>>
    /\ UNCHANGED <<now, API_URL, time_since_update,
                   time_since_update2, enviro_values, pm_values, exc,
                   pmOps, lastSend, enviroSendCount,
                   enviroRaw, iterReads, lastAttempt>>

\* lines 181-184: the test, the timer reset and the call of send_pm_data
CheckPm ==
    /\ pc = "check_pm"
    /\ IF time_since_update > PmInterval
       THEN /\ log' = Append(log, LogRec("INFO", "pm_values", pm_values["date"]))
            /\ update_time' = now
            /\ iterCalls' = Append(iterCalls, CallRec("send_pm_data", pm_values, now))
            /\ pmSendCount' = pmSendCount + 1
            /\ pending' = [pending EXCEPT !["send_pm_data"] = {}]
            /\ pc' = "send_pm"
       ELSE /\ pc' = "check_enviro"
            /\ UNCHANGED <<log, update_time, iterCalls, pmSendCount, pending>>
    /\ UNCHANGED <<now, API_URL, update_time2, time_since_update,
                   time_since_update2, enviro_values, pm_values, exc,
                   pmOps, lastSend, enviroSendCount,
                   enviroRaw, iterReads, lastAttempt>>

\* (mutation) a failed air-quality upload makes the send due again
SendPm_RetryOnFail ==
    /\ pc = "send_pm"
    /\ \E post \in PostOutcomes :
          LET res == send_pm_data(API_URL, pm_values, post)
          IN /\ lastSend' = SendRec("send_pm_data", post, res)
             /\ exc' = res.raised
             /\ update_time' = IF res.ret = "False" THEN 0 ELSE update_time
             /\ lastAttempt' = [lastAttempt EXCEPT !["send_pm_data"] =
                    AttemptRec(res.ret, iterCalls[Len(iterCalls)].t,
                               iterCalls[Len(iterCalls)].arg["date"])]
             /\ IF res.raised # "None"
                THEN log' = log \o res.log /\ pc' = "except"
                ELSE /\ pc' = "check_enviro"
                     /\ log' = (log \o res.log) \o
                          IF res.ret = "True"
                          THEN <<LogRec("INFO", "API pm Response: OK", "")>>
                          ELSE <<LogRec("WARNING", "API pm Response: Failed", "")>>
    /\ UNCHANGED <<now, API_URL, update_time2,
                   time_since_update, time_since_update2, enviro_values,
                   pm_values, pmOps, iterCalls, pmSendCount, enviroSendCount,
                   enviroRaw, iterReads, pending>>

\* (mutation) a raising air-quality send also resets the enviro timer
SendPm_RaiseResetsEnviro ==
    /\ pc = "send_pm"
    /\ \E post \in PostOutcomes :
          LET res == send_pm_data(API_URL, pm_values, post)
          IN /\ lastSend' = SendRec("send_pm_data", post, res)
             /\ exc' = res.raised
             /\ update_time2' = IF res.raised # "None" THEN now ELSE update_time2
             /\ lastAttempt' = [lastAttempt EXCEPT !["send_pm_data"] =
                    AttemptRec(res.ret, iterCalls[Len(iterCalls)].t,
                               iterCalls[Len(iterCalls)].arg["date"])]
             /\ IF res.raised # "None"
                THEN log' = log \o res.log /\ pc' = "except"
                ELSE /\ pc' = "check_enviro"
                     /\ log' = (log \o res.log) \o
                          IF res.ret = "True"
                          THEN <<LogRec("INFO", "API pm Response: OK", "")>>
                          ELSE <<LogRec("WARNING", "API pm Response: Failed", "")>>
    /\ UNCHANGED <<now, API_URL, update_time,
                   time_since_update, time_since_update2, enviro_values,
                   pm_values, pmOps, iterCalls, pmSendCount, enviroSendCount,
                   enviroRaw, iterReads, pending>>

\* lines 131-162 and 184-187: send_pm_data runs and the loop logs its result
SendPm ==
    /\ pc = "send_pm"
    /\ \E post \in PostOutcomes :
          LET res == send_pm_data(API_URL, pm_values, post)
          IN /\ lastSend' = SendRec("send_pm_data", post, res)
             /\ exc' = res.raised
             /\ lastAttempt' = [lastAttempt EXCEPT !["send_pm_data"] =
                    AttemptRec(res.ret, iterCalls[Len(iterCalls)].t,
                               iterCalls[Len(iterCalls)].arg["date"])]
             /\ IF res.raised # "None"
                THEN log' = log \o res.log /\ pc' = "except"
                ELSE /\ pc' = "check_enviro"
                     /\ log' = (log \o res.log) \o
                          IF res.ret = "True"
                          THEN <<LogRec("INFO", "API pm Response: OK", "")>>
                          ELSE <<LogRec("WARNING", "API pm Response: Failed", "")>>
    /\ UNCHANGED <<now, API_URL, update_time, update_time2,
                   time_since_update, time_since_update2, enviro_values,
                   pm_values, pmOps, iterCalls, pmSendCount, enviroSendCount,
                   enviroRaw, iterReads, pending>>

\* (mutation) the enviro step tests the air-quality elapsed time
CheckEnviro_PmTimer ==
    /\ pc = "check_enviro"
    /\ IF time_since_update > EnviroInterval
       THEN /\ log' = Append(log, LogRec("INFO", "enviro_values", enviro_values["date"]))
            /\ update_time2' = now
            /\ iterCalls' = Append(iterCalls, CallRec("send_enviro_data", enviro_values, now))
            /\ enviroSendCount' = enviroSendCount + 1
            /\ pending' = [pending EXCEPT !["send_enviro_data"] = {}]
            /\ pc' = "send_enviro"
       ELSE /\ pc' = "read_enviro"
            /\ UNCHANGED <<log, update_time2, iterCalls, enviroSendCount, pending>>
    /\ UNCHANGED <<now, API_URL, update_time, time_since_update,
                   time_since_update2, enviro_values, pm_values, exc,
                   pmOps, lastSend, pmSendCount,
                   enviroRaw, iterReads, lastAttempt>>

\* (mutation) the enviro send is due at exactly the interval
CheckEnviro_Geq ==
    /\ pc = "check_enviro"
    /\ IF time_since_update2 >= EnviroInterval
       THEN /\ log' = Append(log, LogRec("INFO", "enviro_values", enviro_values["date"]))
            /\ update_time2' = now
            /\ iterCalls' = Append(iterCalls, CallRec("send_enviro_data", enviro_values, now))
            /\ enviroSendCount' = enviroSendCount + 1
            /\ pending' = [pending EXCEPT !["send_enviro_data"] = {}]
            /\ pc' = "send_enviro"
       ELSE /\ pc' = "read_enviro"
            /\ UNCHANGED <<log, update_time2, iterCalls, enviroSendCount, pending>>
    /\ UNCHANGED <<now, API_URL, update_time, time_since_update,
                   time_since_update2, enviro_values, pm_values, exc,
                   pmOps, lastSend, pmSendCount,
                   enviroRaw, iterReads, lastAttempt>>

\* lines 188-191: the test, the timer reset and the call of send_enviro_data
CheckEnviro ==
    /\ pc = "check_enviro"
    /\ IF time_since_update2 > EnviroInterval
       THEN /\ log' = Append(log, LogRec("INFO", "enviro_values", enviro_values["date"]))
            /\ update_time2' = now
            /\ iterCalls' = Append(iterCalls, CallRec("send_enviro_data", enviro_values, now))
            /\ enviroSendCount' = enviroSendCount + 1
            /\ pending' = [pending EXCEPT !["send_enviro_data"] = {}]
            /\ pc' = "send_enviro"
       ELSE /\ pc' = "read_enviro"
            /\ UNCHANGED <<log, update_time2, iterCalls, enviroSendCount, pending>>
    /\ UNCHANGED <<now, API_URL, update_time, time_since_update,
                   time_since_update2, enviro_values, pm_values, exc,
                   pmOps, lastSend, pmSendCount,
                   enviroRaw, iterReads, lastAttempt>>

\* lines 95-129 and 191-194
SendEnviro ==
    /\ pc = "send_enviro"
    /\ \E post \in PostOutcomes :
          LET res == send_enviro_data(API_URL, enviro_values, post)
          IN /\ lastSend' = SendRec("send_enviro_data", post, res)
             /\ exc' = res.raised
             /\ lastAttempt' = [lastAttempt EXCEPT !["send_enviro_data"] =
                    AttemptRec(res.ret, iterCalls[Len(iterCalls)].t,
                               iterCalls[Len(iterCalls)].arg["date"])]
             /\ IF res.raised # "None"
                THEN log' = log \o res.log /\ pc' = "except"
                ELSE /\ pc' = "read_enviro"
                     /\ log' = (log \o res.log) \o
                          IF res.ret = "True"
                          THEN <<LogRec("INFO", "API enviro Response: OK", "")>>
                          ELSE <<LogRec("WARNING", "API enviro Response: Failed", "")>>
    /\ UNCHANGED <<now, API_URL, update_time, update_time2,
                   time_since_update, time_since_update2, enviro_values,
                   pm_values, pmOps, iterCalls, pmSendCount, enviroSendCount,
                   enviroRaw, iterReads, pending>>

\* the interval of a sender has expired on the clock
DueNow(fn) ==
    IF fn = "send_pm_data" THEN now - update_time > PmInterval
                           ELSE now - update_time2 > EnviroInterval

\* lines 195-196: the handler of the loop body; it also notes which due
\* sends the aborted iteration did not get to
Except ==
    /\ pc = "except"
    /\ IF LoopCatches(exc)
       THEN /\ log' = Append(log, LogRec("WARNING", "Main Loop Exception", exc))
            /\ pc' = "read_enviro"
       ELSE /\ log' = log
            /\ pc' = "terminated"
    /\ pending' =
          [fn \in Senders |->
              pending[fn]
              \cup (IF Len(iterReads) < 2 /\ DueNow(fn) THEN {"read"} ELSE {})
              \cup (IF fn = "send_enviro_data" /\ lastSend.fn = "send_pm_data"
                        /\ time_since_update2 > EnviroInterval
                     THEN {"send"} ELSE {})]
    /\ UNCHANGED <<now, API_URL, update_time, update_time2,
                   time_since_update, time_since_update2, enviro_values,
                   pm_values, exc, pmOps, lastSend, iterCalls, pmSendCount,
                   enviroSendCount,
                   enviroRaw, iterReads, lastAttempt>>

Next ==
    \/ Tick
    \/ ReadEnviro
    \/ ReadPm
    \/ Elapsed
    \/ Elapsed2
    \/ CheckPm
    \/ SendPm
    \/ CheckEnviro
    \/ SendEnviro
    \/ Except

Spec == Init /\ [][Next]_vars

\* the steps of the loop; the single thread always takes its next step
\* (a sensor read or a POST returns or raises), time may stop
Loop ==
    \/ ReadEnviro
    \/ ReadPm
    \/ Elapsed
    \/ Elapsed2
    \/ CheckPm
    \/ SendPm
    \/ CheckEnviro
    \/ SendEnviro
    \/ Except

\* the span of clock time explored after the start under LiveSpec
LiveHorizon == 1200

\* lines 167-170 with the clock reading some later epoch time at start-up:
\* both timers start at the current time
LiveInit ==
    /\ now = MaxTime - LiveHorizon
    /\ API_URL \in {"http://api.example", "None"}
    /\ update_time = now
    /\ update_time2 = now
    /\ time_since_update = 0
    /\ time_since_update2 = 0
    /\ enviro_values = EmptyDict
    /\ pm_values = EmptyDict
    /\ pc = "read_enviro"
    /\ exc = "None"
    /\ log = <<>>
    /\ pmOps = <<>>
    /\ lastSend = NoSend
    /\ iterCalls = <<>>
    /\ pmSendCount = 0
    /\ enviroSendCount = 0
    /\ enviroRaw = NoEnviro
    /\ iterReads = <<>>
    /\ lastAttempt = [fn \in Senders |-> NoAttempt]
    /\ pending = [fn \in Senders |-> {}]

LiveSpec == LiveInit /\ [][Next]_vars /\ WF_vars(Loop)

TypeOK ==
    /\ now \in 0..MaxTime
    /\ pc \in {"read_enviro", "read_pm", "elapsed", "elapsed2", "check_pm",
               "send_pm", "check_enviro", "send_enviro", "except",
               "terminated"}

\* ----------------------------------------------------------------- claims
NumCalls(fn) ==
    Cardinality({i \in 1..Len(iterCalls) : iterCalls[i].fn = fn})

TransportErrors == {"ConnectionError", "Timeout", "TooManyRedirects"}

\* the air-quality step of the running or just finished iteration is over
PmStepDone ==
    \/ pc \in {"check_enviro", "send_enviro"}
    \/ pc \in {"except", "read_enviro"} /\ lastSend.fn # "none"
    \/ pc = "read_enviro" /\ exc = "None"

\* the running or just finished iteration went through both steps
IterationCompleted == pc = "read_enviro" /\ exc = "None"

\* C1: a send attempt of a reading type always comes with the reset of that
\* type's timer to the time of the attempt, whatever the upload then does
\* (true, false, transport error, exception), and nothing but the start of
\* a send attempt changes a timer.
C1_TimerResetOnAttempt ==
    /\ [](\A i \in 1..Len(iterCalls) :
            /\ iterCalls[i].fn = "send_pm_data" => update_time = iterCalls[i].t
            /\ iterCalls[i].fn = "send_enviro_data" => update_time2 = iterCalls[i].t)
    /\ [][/\ (update_time' # update_time) <=> (pmSendCount' = pmSendCount + 1)
          /\ (update_time2' # update_time2) <=> (enviroSendCount' = enviroSendCount + 1)]_vars

C1_Witness ==
    /\ lastSend.fn = "send_pm_data"
    /\ lastSend.post.exc = "ConnectionError"
    /\ lastSend.ret = "False"
    /\ update_time = iterCalls[1].t
    /\ update_time > 0

\* C2: the senders never raise: every call ends by returning a boolean, and
\* a transport error gives False and one warning.
C2_SendersNeverRaise ==
    lastSend.fn # "none" =>
        /\ lastSend.raised = "None"
        /\ lastSend.ret \in {"True", "False"}
        /\ lastSend.post.exc \in TransportErrors =>
              /\ lastSend.ret = "False"
              /\ Len(lastSend.log) = 1
              /\ lastSend.log[1].level = "WARNING"

\* C3: a sender returns True exactly when a response was received and it is
\* ok; a transport error or a non-ok response makes it return False.
C3_TrueIffOkResponse ==
    lastSend.fn # "none" =>
        /\ lastSend.ret = "True" <=>
              (lastSend.post.exc = "None" /\ lastSend.post.ok)
        /\ (\/ lastSend.post.exc \in TransportErrors
            \/ lastSend.post.exc = "None" /\ ~lastSend.post.ok)
           => lastSend.ret = "False"

C3_Witness ==
    /\ lastSend.fn = "send_enviro_data"
    /\ lastSend.post.ok
    /\ lastSend.ret = "True"
    /\ lastSend.url = "http://api.example/enviro-data"

\* C4: on a non-ok response a sender returns False and logs exactly one
\* warning, which carries the reason of the response.
C4_NonOkOneWarning ==
    (lastSend.fn # "none" /\ lastSend.post.exc = "None" /\ ~lastSend.post.ok) =>
        /\ lastSend.ret = "False"
        /\ lastSend.raised = "None"
        /\ Len(lastSend.log) = 1
        /\ lastSend.log[1].level = "WARNING"
        /\ lastSend.log[1].arg = lastSend.post.reason

C4_Witness ==
    /\ lastSend.fn = "send_pm_data"
    /\ lastSend.post.exc = "None"
    /\ lastSend.post.reason = "Not Found"
    /\ lastSend.ret = "False"

PmValuesFrom(data) ==
    /\ DOMAIN pm_values = PmFields
    /\ pm_values["pm1"] = ToString(data.pm1)
    /\ pm_values["pm25"] = ToString(data.pm25)
    /\ pm_values["pm10"] = ToString(data.pm10)

\* C5: when the first read fails with a timeout or a checksum mismatch and
\* the second succeeds, read_pm_values returns the second read's values and
\* resets the sensor once, between the two reads; when the first read
\* succeeds there is one read and no reset.
C5_ResetAndRetry ==
    pmOps # <<>> =>
        /\ pmOps[1].op = "read"
        /\ pmOps[1].res.exc = "None" =>
              /\ pmOps = <<PmRead(pmOps[1].res)>>
              /\ exc # "None" => lastSend.fn # "none"
              /\ PmValuesFrom(pmOps[1].res.data)
        /\ (pmOps[1].res.exc \in TransientPmErrors) =>
              /\ Len(pmOps) = 3
              /\ pmOps[2].op = "reset"
              /\ pmOps[3].op = "read"
              /\ pmOps[3].res.exc = "None" =>
                    /\ exc # "None" => lastSend.fn # "none"
                    /\ PmValuesFrom(pmOps[3].res.data)

C5_Witness ==
    /\ Len(pmOps) = 3
    /\ pmOps[1].res.exc = "ChecksumMismatchError"
    /\ pmOps[2].op = "reset"
    /\ pmOps[3].res.exc = "None"
    /\ pm_values["pm10"] = "12"
    /\ pc = "elapsed"

Ops(kind) == {i \in 1..Len(pmOps) : pmOps[i].op = kind}

\* C6: when both reads of a call fail, the error of the second one reaches
\* the caller; a call reads at most twice and resets at most once, and a
\* call that raises returns no reading.
C6_SecondFailurePropagates ==
    /\ [](/\ Cardinality(Ops("read")) <= 2
          /\ Cardinality(Ops("reset")) <= 1
          /\ (Len(pmOps) = 3 /\ pmOps[3].res.exc # "None") =>
                /\ exc = pmOps[3].res.exc
                /\ pc \in {"except", "read_enviro"}
                /\ iterCalls = <<>>)
    /\ [][(pc = "read_pm" /\ pc' = "except") => pm_values' = pm_values]_vars

C6_Witness ==
    /\ Len(pmOps) = 3
    /\ pmOps[1].res.exc = "ReadTimeoutError"
    /\ pmOps[3].res.exc = "ChecksumMismatchError"
    /\ exc = "ChecksumMismatchError"
    /\ pc = "except"

\* no send of the type before the running iteration
FirstPmIteration == pmSendCount = NumCalls("send_pm_data")
FirstEnviroIteration == enviroSendCount = NumCalls("send_enviro_data")

\* C7 (as claimed): from both timers at 0, the first air-quality send is
\* made by the first iteration that observes elapsed >= 300 and the first
\* enviro send by the first iteration that observes elapsed >= 900, elapsed
\* equal to the interval included.
C7_SendAtOrAfterInterval ==
    /\ (PmStepDone /\ FirstPmIteration) =>
          NumCalls("send_pm_data") =
              IF time_since_update >= PmInterval THEN 1 ELSE 0
    /\ (IterationCompleted /\ FirstEnviroIteration) =>
          NumCalls("send_enviro_data") =
              IF time_since_update2 >= EnviroInterval THEN 1 ELSE 0

\* C7 (amended): from both timers at 0, the first air-quality send is made
\* by the first iteration that observes elapsed > 300 (exactly 300 sends
\* nothing) and the first enviro send by the first iteration that observes
\* elapsed > 900 and reaches the enviro step; an iteration whose
\* air-quality send raised makes no enviro send.
C7_SendAfterInterval ==
    /\ (PmStepDone /\ FirstPmIteration) =>
          NumCalls("send_pm_data") =
              IF time_since_update > PmInterval THEN 1 ELSE 0
    /\ (IterationCompleted /\ FirstEnviroIteration) =>
          NumCalls("send_enviro_data") =
              IF time_since_update2 > EnviroInterval THEN 1 ELSE 0
    /\ (pc \in {"except", "read_enviro"} /\ lastSend.fn = "send_pm_data"
          /\ lastSend.raised # "None") => NumCalls("send_enviro_data") = 0
    /\ pmSendCount = 0 => update_time = 0
    /\ enviroSendCount = 0 => update_time2 = 0

C7_Witness ==
    /\ IterationCompleted
    /\ pmSendCount > 1
    /\ enviroSendCount = 1
    /\ NumCalls("send_enviro_data") = 1
    /\ time_since_update2 > EnviroInterval

\* C8: an iteration in which only the air-quality interval is exceeded makes
\* one send_pm_data call and no send_enviro_data call and resets the
\* air-quality timer; the step of one reading type never changes the timer
\* of the other type.
C8_OnlyAirQualityDue ==
    /\ []((PmStepDone /\ pc = "read_enviro"
            /\ time_since_update > PmInterval
            /\ time_since_update2 <= EnviroInterval) =>
              /\ Len(iterCalls) = 1
              /\ iterCalls[1].fn = "send_pm_data"
              /\ update_time = iterCalls[1].t)
    /\ [][/\ pc \in {"check_pm", "send_pm"} => update_time2' = update_time2
          /\ pc \in {"check_enviro", "send_enviro"} => update_time' = update_time
          /\ ~(update_time' # update_time /\ update_time2' # update_time2)]_vars

C8_Witness ==
    /\ IterationCompleted
    /\ time_since_update > PmInterval
    /\ time_since_update2 <= EnviroInterval
    /\ time_since_update2 > PmInterval
    /\ Len(iterCalls) = 1
    /\ update_time > update_time2

MainLoopWarnings ==
    {i \in 1..Len(log) : log[i] = LogRec("WARNING", "Main Loop Exception", exc)}

\* C9: the loop never stops: an exception raised in an iteration reaches
\* the handler of the loop, which logs one warning and starts the next
\* iteration.
C9_LoopNeverTerminates ==
    /\ [](/\ pc # "terminated"
          /\ exc # "None" => pc \in {"except", "read_enviro"}
          /\ (pc = "read_enviro" /\ exc # "None") =>
                Cardinality(MainLoopWarnings) = 1)
    /\ [][pc = "except" =>
            /\ pc' = "read_enviro"
            /\ log' = Append(log, LogRec("WARNING", "Main Loop Exception", exc))]_vars

C9_Witness ==
    /\ pc = "read_enviro"
    /\ exc = "TypeError"
    /\ Cardinality(MainLoopWarnings) = 1
    /\ pmSendCount > 1

\* C10: the reading handed to a sender has every field of its type, each a
\* string, also when the particulate read was retried.
C10_NoPartialReading ==
    \A i \in 1..Len(iterCalls) :
        LET fields == IF iterCalls[i].fn = "send_pm_data"
                      THEN PmFields ELSE EnviroFields
        IN /\ fields \subseteq DOMAIN iterCalls[i].arg
           /\ \A f \in fields : iterCalls[i].arg[f] \in STRING

C10_Witness ==
    /\ Len(pmOps) = 3
    /\ Len(iterCalls) = 2
    /\ iterCalls[1].fn = "send_pm_data"
    /\ DOMAIN iterCalls[1].arg = PmFields
    /\ iterCalls[2].fn = "send_enviro_data"
    /\ DOMAIN iterCalls[2].arg = EnviroFields

LoopLogged(msg) == \E i \in 1..Len(log) : log[i].msg = msg

\* C11 (as claimed): with API_URL absent every send attempt issues a request
\* that fails, the sender returns False and the loop logs the response as
\* failed; no upload is reported as OK.
C11_AbsentUrlFailedUpload ==
    (API_URL = "None" /\ lastSend.fn # "none") =>
        /\ lastSend.post.exc # "NotCalled"
        /\ lastSend.ret = "False"
        /\ pc = "read_enviro" =>
              \/ LoopLogged("API pm Response: Failed")
              \/ LoopLogged("API enviro Response: Failed")
        /\ ~LoopLogged("API pm Response: OK")
        /\ ~LoopLogged("API enviro Response: OK")

\* both reads of the running iteration have returned
ReadsDone == Len(iterReads) = 2

\* C12 (as claimed): a due send of one type is made whatever happens to the
\* other type: a failed read of either sensor or a raising air-quality send
\* does not keep the iteration from making the sends that are due.
C12_FailureDoesNotBlockOther ==
    pc = "except" =>
        /\ (~ReadsDone /\ DueNow("send_pm_data")) => NumCalls("send_pm_data") = 1
        /\ (~ReadsDone /\ DueNow("send_enviro_data")) =>
              NumCalls("send_enviro_data") = 1
        /\ (lastSend.fn = "send_pm_data" /\ time_since_update2 > EnviroInterval)
              => NumCalls("send_enviro_data") = 1

\* C12 (amended): the send decisions are independent, the iterations are
\* not: an iteration that reaches the air-quality step sends air quality
\* iff its own elapsed time exceeds 300, one that reaches the enviro step
\* sends enviro iff its own elapsed time exceeds 900, and each step changes
\* its own timer only; but an iteration in which a read of either sensor
\* raises makes no send of either type, and one whose air-quality send
\* raises makes no enviro send.
C12_IndependentDecisions ==
    /\ [](/\ PmStepDone =>
                NumCalls("send_pm_data") =
                    IF time_since_update > PmInterval THEN 1 ELSE 0
          /\ IterationCompleted =>
                NumCalls("send_enviro_data") =
                    IF time_since_update2 > EnviroInterval THEN 1 ELSE 0
          /\ (pc = "except" /\ ~ReadsDone) => iterCalls = <<>>
          /\ (pc = "except" /\ lastSend.fn = "send_pm_data") =>
                NumCalls("send_enviro_data") = 0)
    /\ [][/\ pmSendCount' # pmSendCount => update_time2' = update_time2
          /\ enviroSendCount' # enviroSendCount => update_time' = update_time]_vars

C12_Witness ==
    /\ pc = "except"
    /\ exc = "OSError"
    /\ iterReads = <<>>
    /\ DueNow("send_pm_data")
    /\ ~DueNow("send_enviro_data")
    /\ iterCalls = <<>>
    /\ enviroSendCount = 1

\* the call of a sender that is starting in this step
Starts(fn) ==
    IF fn = "send_pm_data" THEN pmSendCount' = pmSendCount + 1
                           ELSE enviroSendCount' = enviroSendCount + 1

\* C13: a failed upload is not retried: an iteration calls a sender at most
\* once, and the call that follows one that returned False is made by an
\* iteration that measured more than the full interval since the timer
\* reset of the failed call, with another reading.
C13_NoRetryAfterFailure ==
    /\ [](\A fn \in Senders : NumCalls(fn) <= 1)
    /\ [][\A fn \in Senders :
            (Starts(fn) /\ lastAttempt[fn].ret = "False") =>
               /\ now - lastAttempt[fn].t >
                     (IF fn = "send_pm_data" THEN PmInterval ELSE EnviroInterval)
               /\ (IF fn = "send_pm_data" THEN update_time ELSE update_time2)
                     = lastAttempt[fn].t
               /\ (IF fn = "send_pm_data" THEN time_since_update > PmInterval
                                          ELSE time_since_update2 > EnviroInterval)
               /\ iterCalls'[Len(iterCalls')].arg["date"] # lastAttempt[fn].date]_vars

C13_Witness ==
    /\ pc = "send_pm"
    /\ lastAttempt["send_pm_data"].ret = "False"
    /\ lastAttempt["send_pm_data"].t = 600
    /\ update_time = 1200
    /\ pmSendCount = 2

GasChannels == {"oxidising", "reducing", "nh3"}

\* C14: read_enviro_values renders a gas value g >= 0 as the decimal string
\* of the integer q with q * 1000 <= g < (q + 1) * 1000; it never rounds up.
\* (Stated where read_enviro_values has just returned its reading.)
C14_GasTruncated ==
    (pc = "read_pm" /\ enviroRaw # NoEnviro) =>
        \A ch \in GasChannels :
            \E q \in 0..GasQuotientMax :
                /\ q * GasScale <= enviroRaw[ch]
                /\ enviroRaw[ch] < (q + 1) * GasScale
                /\ enviro_values[ch] = ToString(q)

C14_Witness ==
    /\ pc = "read_pm"
    /\ enviroRaw # NoEnviro
    /\ enviroRaw["oxidising"] = 1999
    /\ enviro_values["oxidising"] = "1"
    /\ enviroRaw["reducing"] = 999
    /\ enviro_values["reducing"] = "0"

\* C17: two consecutive calls of the same sender are more than its interval
\* apart, whatever the earlier call did (True, False or an exception).
C17_AttemptsSpaced ==
    [][/\ (Starts("send_pm_data") /\ pmSendCount > 0) =>
             /\ lastAttempt["send_pm_data"].ret # "none"
             /\ now - lastAttempt["send_pm_data"].t > PmInterval
       /\ (Starts("send_enviro_data") /\ enviroSendCount > 0) =>
             /\ lastAttempt["send_enviro_data"].ret # "none"
             /\ now - lastAttempt["send_enviro_data"].t > EnviroInterval]_vars

C17_Witness ==
    /\ pc = "send_enviro"
    /\ enviroSendCount = 2
    /\ lastAttempt["send_enviro_data"].ret = "NoReturn"
    /\ now - lastAttempt["send_enviro_data"].t > EnviroInterval
    /\ pmSendCount > 2

\* C15: an iteration reads enviro first and air quality second before it
\* compares any timer; when it makes both sends the air-quality one comes
\* first; and a sender is given the reading its reader returned in this
\* iteration.
C15_ReadOrderAndFreshReadings ==
    /\ pc = "read_pm" =>
          Len(iterReads) = 1 /\ iterReads[1].fn = "read_enviro_values"
    /\ pc \in {"elapsed", "elapsed2", "check_pm", "send_pm", "check_enviro",
               "send_enviro"} =>
          /\ Len(iterReads) = 2
          /\ iterReads[1].fn = "read_enviro_values"
          /\ iterReads[2].fn = "read_pm_values"
    /\ Len(iterCalls) = 2 =>
          /\ iterCalls[1].fn = "send_pm_data"
          /\ iterCalls[2].fn = "send_enviro_data"
    /\ \A i \in 1..Len(iterCalls) :
          /\ Len(iterReads) = 2
          /\ iterCalls[i].fn = "send_pm_data" =>
                iterCalls[i].arg = iterReads[2].values
          /\ iterCalls[i].fn = "send_enviro_data" =>
                iterCalls[i].arg = iterReads[1].values

C15_Witness ==
    /\ pc = "send_enviro"
    /\ Len(iterCalls) = 2
    /\ iterCalls[1].arg = iterReads[2].values
    /\ iterCalls[2].arg = iterReads[1].values
    /\ iterCalls[2].t > iterCalls[1].t
    /\ pmSendCount > 1

\* an iteration whose reads both succeeded is at its end
ReadsOkIterationEnds == ReadsDone /\ (pc = "except" \/ IterationCompleted)

\* C16 (as claimed): an iteration in which a read raises makes no send and
\* leaves both timers alone, and a send that was due then is attempted by
\* the first later iteration whose reads both succeed.
C16_SkippedSendAttemptedNext ==
    /\ []((pc = "except" /\ ~ReadsDone) => iterCalls = <<>>)
    /\ [][(pc \in {"read_enviro", "read_pm"} \/ (pc = "except" /\ ~ReadsDone)) =>
             (update_time' = update_time /\ update_time2' = update_time2)]_vars
    /\ [](ReadsOkIterationEnds =>
             \A fn \in Senders : "read" \notin pending[fn])

\* the air-quality send of the running or just finished iteration raised
PmSendRaised ==
    /\ pc \in {"except", "read_enviro"}
    /\ lastSend.fn = "send_pm_data"
    /\ lastSend.raised # "None"

C18_ExpiryLeadsToAttempt ==
    (<>[](exc = "None")) =>
        /\ (DueNow("send_pm_data") /\ pc # "send_pm") ~> (pc = "send_pm")
        /\ (DueNow("send_enviro_data") /\ pc # "send_enviro") ~> (pc = "send_enviro")

C18_Witness ==
    /\ pc = "send_enviro"
    /\ enviroSendCount = 1
    /\ pmSendCount > 1
    /\ exc = "None"
    /\ API_URL # "None"
    /\ lastAttempt["send_pm_data"].ret = "False"

====
